---- MODULE Spec2Model ----
(***************************************************************************)
(* Model of static/script.js: the click handler of #analyzeButton, the     *)
(* fetch('/analyze') promise chain it starts, and the two callbacks that   *)
(* write the #results panel.                                               *)
(***************************************************************************)
EXTENDS Integers, Sequences, FiniteSets, TLC

(***************************************************************************)
(* Bounds of the model.                                                    *)
(***************************************************************************)
\* Number of clicks (hence of requests) in one behaviour.
MaxClicks == 2

(***************************************************************************)
(* JavaScript values.  Every value is a tagged record, so that values of   *)
(* different types are comparable.                                         *)
(***************************************************************************)
Undef == [t |-> "undefined"]
Null == [t |-> "null"]
Str(s) == [t |-> "string", s |-> s]
Num(n) == [t |-> "number", n |-> n]
Obj(f) == [t |-> "object", props |-> f]

\* ToBoolean, as applied by `if (data.error)`.
Truthy(v) ==
    CASE v.t = "undefined" -> FALSE
      [] v.t = "null" -> FALSE
      [] v.t = "string" -> v.s # ""
      [] v.t = "number" -> v.n # 0
      [] OTHER -> TRUE

\* ToString, as applied by a template literal's ${...}.
ToStr(v) ==
    CASE v.t = "undefined" -> "undefined"
      [] v.t = "null" -> "null"
      [] v.t = "string" -> v.s
      [] v.t = "number" -> ToString(v.n)
      [] OTHER -> "[object Object]"

\* Property access v.k cannot be evaluated on undefined and null: it throws.
Nullish(v) == v.t \in {"undefined", "null"}

\* v.k for a v that is not nullish: the property, or undefined when absent
\* (a primitive has none of the properties the script reads).
Get(v, k) ==
    IF v.t = "object" /\ k \in DOMAIN v.props THEN v.props[k] ELSE Undef

\* `${error}` for the TypeError that v.k raises on a nullish v.
TypeErrorText(v, k) ==
    "TypeError: Cannot read properties of " \o ToStr(v)
        \o " (reading '" \o k \o "')"

(***************************************************************************)
(* Strings.                                                                *)
(***************************************************************************)
\* The least index >= from at which t occurs in s, or 0 when there is none.
IndexFrom(s, t, from) ==
    LET hits == {i \in from..(Len(s) - Len(t) + 1) :
                    SubSeq(s, i, i + Len(t) - 1) = t}
    IN IF hits = {} THEN 0 ELSE CHOOSE i \in hits : \A j \in hits : i <= j

Contains(s, t) == IndexFrom(s, t, 1) # 0

(***************************************************************************)
(* JSON.stringify({ document: documentInput }) and the server's reading of *)
(* the body.                                                               *)
(***************************************************************************)
Quote == "\""
Backslash == "\\"

RECURSIVE EscapeFrom(_, _)
EscapeFrom(s, i) ==
    IF i > Len(s) THEN ""
    ELSE LET c == SubSeq(s, i, i)
         IN (IF c = Quote \/ c = Backslash THEN Backslash \o c ELSE c)
                \o EscapeFrom(s, i + 1)

\* JSON.stringify of a string: quoted, with " and \ escaped.
QuoteJSONString(s) == Quote \o EscapeFrom(s, 1) \o Quote

BodyPrefix == "{" \o Quote \o "document" \o Quote \o ":"

JSONStringifyBody(doc) == BodyPrefix \o QuoteJSONString(doc) \o "}"

\* Whether s[i..last] is the inside of a JSON string: every " and \ in it is
\* escaped by a \.
RECURSIVE EscapedFrom(_, _, _)
EscapedFrom(s, i, last) ==
    IF i > last THEN TRUE
    ELSE LET c == SubSeq(s, i, i)
         IN IF c = Quote THEN FALSE
            ELSE IF c = Backslash
            THEN i < last /\ EscapedFrom(s, i + 2, last)
            ELSE EscapedFrom(s, i + 1, last)

RECURSIVE UnescapeFrom(_, _, _)
UnescapeFrom(s, i, last) ==
    IF i > last THEN ""
    ELSE LET c == SubSeq(s, i, i)
         IN IF c = Backslash /\ i < last
            THEN SubSeq(s, i + 1, i + 1) \o UnescapeFrom(s, i + 2, last)
            ELSE c \o UnescapeFrom(s, i + 1, last)

\* The reading of a request body by a JSON parser: whether it is an object
\* {"document":"..."}, and the string it carries.
IsDocumentBody(body) ==
    /\ Len(body) >= Len(BodyPrefix) + 3
    /\ SubSeq(body, 1, Len(BodyPrefix) + 1) = BodyPrefix \o Quote
    /\ SubSeq(body, Len(body) - 1, Len(body)) = Quote \o "}"
    /\ EscapedFrom(body, Len(BodyPrefix) + 2, Len(body) - 2)

ParseBodyDocument(body) ==
    UnescapeFrom(body, Len(BodyPrefix) + 2, Len(body) - 2)

(***************************************************************************)
(* The fragments the two callbacks build.                                  *)
(***************************************************************************)
Heading == "<h3>Analysis Results:</h3>"
EntityHeading == "<h4>Entity Extraction:</h4>"
SentimentHeading == "<h4>Sentiment Analysis:</h4>"
SummaryHeading == "<h4>Summarization:</h4>"

\* A paragraph that leaves a missing value blank.
PBlankMissing(label, v) ==
    "<p>" \o label \o (IF v.t = "undefined" THEN "" ELSE ToStr(v)) \o "</p>"

\* Lines 19-25: one paragraph, `<p>label${v}</p>`.
P(label, v) == "<p>" \o label \o ToStr(v) \o "</p>"

Returned(html, reads) == [threw |-> FALSE, text |-> html, reads |-> reads]
Thrown(text, reads) == [threw |-> TRUE, text |-> text, reads |-> reads]

\* An error branch that renders like the catch callback.
ErrorFragmentLikeCatch(e) == "<p>Error: " \o ToStr(e) \o "</p>"

\* Line 16: the paragraph of the error branch.
ErrorFragment(e) == Heading \o "<p>" \o ToStr(e) \o "</p>"

\* The sections with the two entity paragraphs exchanged.
SuccessFragmentSwapped(ee, sa, su) ==
    Heading
        \o EntityHeading
        \o P("Relationships: ", Get(ee, "relationships"))
        \o P("Entities: ", Get(ee, "entities"))
        \o SentimentHeading
        \o P("Sentiment: ", Get(sa, "sentiment"))
        \o P("Confidence: ", Get(sa, "confidence"))
        \o SummaryHeading
        \o P("Summary: ", Get(su, "summary"))

\* Lines 18-25: the three sections, built from the three section objects.
SuccessFragment(ee, sa, su) ==
    Heading
        \o EntityHeading
        \o P("Entities: ", Get(ee, "entities"))
        \o P("Relationships: ", Get(ee, "relationships"))
        \o SentimentHeading
        \o P("Sentiment: ", Get(sa, "sentiment"))
        \o P("Confidence: ", Get(sa, "confidence"))
        \o SummaryHeading
        \o P("Summary: ", Get(su, "summary"))

\* A catch callback that drops the error detail.
CatchWithoutDetail(text) == "<p>Something went wrong.</p>"

\* Line 30: the fragment of the catch callback, for the text of `${error}`.
CatchFragment(text) == "<p>Error: " \o text \o "</p>"

\* Line 15: the test that selects the error branch.
TakesErrorBranch(data) == Truthy(Get(data, "error"))

AllSections == {"entity_extraction", "sentiment_analysis", "summarization"}

\* Lines 13-28, data => {...}: what the callback returns to the chain.  It
\* either reaches line 27 with the fragment `text`, or throws at the first
\* property read on a nullish value, and then `text` is `${error}` of the
\* TypeError.  `reads` are the properties of data it has read by then.
ThenCallback(data) ==
    IF Nullish(data) THEN Thrown(TypeErrorText(data, "error"), {})
    ELSE IF TakesErrorBranch(data)
    THEN Returned(ErrorFragment(Get(data, "error")), {"error"})
    ELSE LET ee == Get(data, "entity_extraction")
             sa == Get(data, "sentiment_analysis")
             su == Get(data, "summarization")
         IN IF Nullish(ee)
            THEN Thrown(TypeErrorText(ee, "entities"),
                        {"error", "entity_extraction"})
            ELSE IF Nullish(sa)
            THEN Thrown(TypeErrorText(sa, "sentiment"),
                        {"error", "entity_extraction", "sentiment_analysis"})
            ELSE IF Nullish(su)
            THEN Thrown(TypeErrorText(su, "summary"),
                        {"error"} \cup AllSections)
            ELSE Returned(SuccessFragment(ee, sa, su),
                          {"error"} \cup AllSections)

(***************************************************************************)
(* The environment: what the user types and what the endpoint answers.     *)
(***************************************************************************)
\* Contents of the #document field.
Docs == {"", "say " \o Quote \o "hi" \o Quote}

\* `${error}` of the rejection of fetch() (server unreachable) and of
\* response.json() (a body that is not JSON).
FetchErrors == {"TypeError: Failed to fetch"}
JsonErrors == {"SyntaxError: Unexpected token < in JSON at position 0"}

Entity(e, r) == Obj([entities |-> e, relationships |-> r])
Sentiment(s, c) == Obj([sentiment |-> s, confidence |-> c])
Summary(s) == Obj([summary |-> s])

GoodEntity == Entity(Str("Apple"), Str("none"))
GoodSentiment == Sentiment(Str("positive"), Str("0.92"))
GoodSummary == Summary(Str("Apple profits rose."))

\* Success responses with the three sections and every leaf field.
WellFormed ==
    { Obj([entity_extraction |-> GoodEntity,
           sentiment_analysis |-> GoodSentiment,
           summarization |-> GoodSummary]),
      Obj([entity_extraction |-> Entity(Str(""), Str("<b>owns</b>")),
           sentiment_analysis |-> Sentiment(Str("neutral"), Num(0)),
           summarization |-> Summary(Str("undefined"))]) }

\* Responses with an `error` property.
WithError ==
    { Obj([error |-> Str("TypeError: Failed to fetch")]),
      Obj([error |-> Str("")]),
      Obj([error |-> Str("Model unavailable"),
           entity_extraction |-> GoodEntity,
           sentiment_analysis |-> GoodSentiment,
           summarization |-> GoodSummary]),
      Obj([error |-> Null,
           entity_extraction |-> GoodEntity,
           sentiment_analysis |-> GoodSentiment,
           summarization |-> GoodSummary]) }

\* Responses without `error` that lack a leaf field or a section, and the
\* JSON text null.
Malformed ==
    { Obj([entity_extraction |-> Obj([relationships |-> Str("none")]),
           sentiment_analysis |-> GoodSentiment,
           summarization |-> Obj([text |-> Str("n/a")])]),
      Obj([entity_extraction |-> GoodEntity,
           sentiment_analysis |-> GoodSentiment]),
      Obj([sentiment_analysis |-> GoodSentiment,
           summarization |-> GoodSummary]),
      Null }

Responses == WellFormed \cup WithError \cup Malformed

(***************************************************************************)
(* State.                                                                  *)
(***************************************************************************)
VARIABLES
    field,    \* value of the #document field
    panel,    \* innerHTML last assigned to #results
    clicks,   \* number of click events delivered to the handler
    sent,     \* number of calls of fetch()
    req,      \* per request: the position of its promise chain, and how
              \* often its callbacks have assigned the panel
    last      \* the most recent run of a then/catch callback: its request,
              \* its argument, its result, where the error it handles was
              \* raised, and what the panel showed at the request's click

vars == <<field, panel, clicks, sent, req, last>>

Ids == 1..MaxClicks

\* Content of #results when the page has loaded.
InitialPanel == ""

NoRequest ==
    [st |-> "none", body |-> "", data |-> Undef, err |-> "", from |-> "",
     atClick |-> "", writes |-> 0]

\* Request i once its chain has ended with an assignment of the panel.
Done(i) == [NoRequest EXCEPT !.st = "done", !.writes = req[i].writes + 1]

InFlight == {"fetch", "json", "then", "catch"}

Pending(i) == req[i].st \in InFlight

\* The two states of the client.
clientState ==
    IF \E i \in Ids : Pending(i) THEN "AwaitingResponse" ELSE "Idle"

Init ==
    /\ field \in Docs
    /\ panel = InitialPanel
    /\ clicks = 0
    /\ sent = 0
    /\ req = [i \in Ids |-> NoRequest]
    /\ last = [id |-> 0, cb |-> "none", in |-> Undef,
               out |-> Returned(InitialPanel, {}), from |-> "",
               atClick |-> InitialPanel]

(***************************************************************************)
(* The user.                                                               *)
(***************************************************************************)
\* An edit of a field that the pending requests read when they are sent.
TypeIntoPending(d) ==
    /\ d # field
    /\ field' = d
    /\ req' = [i \in Ids |->
                 IF req[i].st = "fetch"
                 THEN [req[i] EXCEPT !.body = JSONStringifyBody(d)]
                 ELSE req[i]]
    /\ UNCHANGED <<panel, clicks, sent, last>>

\* The user edits the #document field.
Type(d) ==
    /\ d # field
    /\ field' = d
    /\ UNCHANGED <<panel, clicks, sent, req, last>>

\* Lines 4-11: the chain of a request created for the field value doc, while
\* the panel shows `shown`.
Issued(doc, shown) ==
    [NoRequest EXCEPT !.st = "fetch",
                      !.body = JSONStringifyBody(doc),
                      !.atClick = shown]

\* A click handler that shows a progress note while the request is pending.
ClickShowingProgress ==
    /\ clicks < MaxClicks
    /\ clicks' = clicks + 1
    /\ sent' = sent + 1
    /\ req' = [req EXCEPT ![clicks + 1] = Issued(field, panel)]
    /\ panel' = "<p>Analyzing...</p>"
    /\ UNCHANGED <<field, last>>

\* A click handler that is removed once a failure has been shown.
ClickUntilFailure ==
    /\ clicks < MaxClicks
    /\ last.cb # "catch"
    /\ clicks' = clicks + 1
    /\ sent' = sent + 1
    /\ req' = [req EXCEPT ![clicks + 1] = Issued(field, panel)]
    /\ UNCHANGED <<field, panel, last>>

\* A click handler that validates: it sends nothing for an empty field.
ClickSkippingEmpty ==
    /\ clicks < MaxClicks
    /\ clicks' = clicks + 1
    /\ IF field = ""
       THEN UNCHANGED <<sent, req>>
       ELSE /\ sent' = sent + 1
            /\ req' = [req EXCEPT ![clicks + 1] = Issued(field, panel)]
    /\ UNCHANGED <<field, panel, last>>

\* Lines 3-11: the click handler reads the field and calls fetch().
Click ==
    /\ clicks < MaxClicks
    /\ clicks' = clicks + 1
    /\ sent' = sent + 1
    /\ req' = [req EXCEPT ![clicks + 1] = Issued(field, panel)]
    /\ UNCHANGED <<field, panel, last>>

(***************************************************************************)
(* The promise chain of request i.                                         *)
(***************************************************************************)
\* Line 12: fetch() fulfils and response => response.json() starts reading
\* the response.  The request body has left the client by then.
FetchResolve(i) ==
    /\ req[i].st = "fetch"
    /\ req' = [req EXCEPT ![i].st = "json", ![i].body = ""]
    /\ UNCHANGED <<field, panel, clicks, sent, last>>

\* Lines 5-11: fetch() rejects; the rejection passes both then() to catch().
FetchReject(i, e) ==
    /\ req[i].st = "fetch"
    /\ req' = [req EXCEPT ![i].st = "catch", ![i].body = "", ![i].err = e,
                          ![i].from = "fetch"]
    /\ UNCHANGED <<field, panel, clicks, sent, last>>

\* Line 12: response.json() fulfils with the decoded body d.
JsonResolve(i, d) ==
    /\ req[i].st = "json"
    /\ req' = [req EXCEPT ![i].st = "then", ![i].data = d]
    /\ UNCHANGED <<field, panel, clicks, sent, last>>

\* Line 12: response.json() rejects on a body that is not JSON.
JsonReject(i, e) ==
    /\ req[i].st = "json"
    /\ req' = [req EXCEPT ![i].st = "catch", ![i].err = e, ![i].from = "json"]
    /\ UNCHANGED <<field, panel, clicks, sent, last>>

\* A panel write that adds to what the panel shows.
WriteAppending(i, html) == panel \o html

\* A panel write that drops the response of a superseded request.
WriteIfLatest(i, html) == IF i = clicks THEN html ELSE panel

\* Lines 27 and 30: the assignment to innerHTML, by the callback of request i.
PanelWrite(i, html) == html

\* The sections of data up to the first one that is missing.
PartialFragment(data) ==
    LET ee == Get(data, "entity_extraction")
        sa == Get(data, "sentiment_analysis")
    IN Heading
        \o (IF Nullish(data) \/ Nullish(ee) THEN ""
            ELSE EntityHeading
                    \o P("Entities: ", Get(ee, "entities"))
                    \o P("Relationships: ", Get(ee, "relationships"))
                    \o (IF Nullish(sa) THEN ""
                        ELSE SentimentHeading
                                \o P("Sentiment: ", Get(sa, "sentiment"))
                                \o P("Confidence: ", Get(sa, "confidence"))))

\* A then callback that assigns the panel line by line, so that what it built
\* before it throws is shown.
ThenWritingPartial(i) ==
    /\ req[i].st = "then"
    /\ LET out == ThenCallback(req[i].data)
       IN /\ last' = [id |-> i, cb |-> "then", in |-> req[i].data, out |-> out,
                      from |-> "", atClick |-> req[i].atClick]
          /\ IF out.threw
             THEN /\ req' = [req EXCEPT ![i].st = "catch",
                                        ![i].data = Undef,
                                        ![i].err = out.text,
                                        ![i].from = "then",
                                        ![i].writes = req[i].writes + 1]
                  /\ panel' = PanelWrite(i, PartialFragment(req[i].data))
             ELSE /\ req' = [req EXCEPT ![i] = Done(i)]
                  /\ panel' = PanelWrite(i, out.text)
    /\ UNCHANGED <<field, clicks, sent>>

\* A then callback at the end of a chain without catch(): what it throws is
\* handled by nobody.
ThenUncaught(i) ==
    /\ req[i].st = "then"
    /\ LET out == ThenCallback(req[i].data)
       IN /\ last' = [id |-> i, cb |-> "then", in |-> req[i].data, out |-> out,
                      from |-> "", atClick |-> req[i].atClick]
          /\ IF out.threw
             THEN /\ req' = [req EXCEPT ![i] = [NoRequest EXCEPT !.st = "done"]]
                  /\ UNCHANGED panel
             ELSE /\ req' = [req EXCEPT ![i] = Done(i)]
                  /\ panel' = PanelWrite(i, out.text)
    /\ UNCHANGED <<field, clicks, sent>>

\* Lines 13-28: data => {...} runs for request i.
Then(i) ==
    /\ req[i].st = "then"
    /\ LET out == ThenCallback(req[i].data)
       IN /\ last' = [id |-> i, cb |-> "then", in |-> req[i].data, out |-> out,
                      from |-> "", atClick |-> req[i].atClick]
          /\ IF out.threw
             THEN /\ req' = [req EXCEPT ![i].st = "catch",
                                        ![i].data = Undef,
                                        ![i].err = out.text,
                                        ![i].from = "then"]
                  /\ UNCHANGED panel
             ELSE /\ req' = [req EXCEPT ![i] = Done(i)]
                  /\ panel' = PanelWrite(i, out.text)
    /\ UNCHANGED <<field, clicks, sent>>

\* A catch callback that sends the request again.
CatchRetrying(i) ==
    /\ req[i].st = "catch"
    /\ last' = [id |-> i, cb |-> "catch", in |-> Str(req[i].err),
                out |-> Returned(CatchFragment(req[i].err), {}),
                from |-> req[i].from, atClick |-> req[i].atClick]
    /\ panel' = PanelWrite(i, CatchFragment(req[i].err))
    /\ req' = [req EXCEPT ![i].st = "fetch", ![i].err = "", ![i].from = ""]
    /\ sent' = sent + 1
    /\ UNCHANGED <<field, clicks>>

\* Lines 29-31: error => {...} runs for request i.
Catch(i) ==
    /\ req[i].st = "catch"
    /\ last' = [id |-> i, cb |-> "catch", in |-> Str(req[i].err),
                out |-> Returned(CatchFragment(req[i].err), {}),
                from |-> req[i].from, atClick |-> req[i].atClick]
    /\ panel' = PanelWrite(i, CatchFragment(req[i].err))
    /\ req' = [req EXCEPT ![i] = Done(i)]
    /\ UNCHANGED <<field, clicks, sent>>

\* One step of the chain of request i.
Advance(i) ==
    \/ FetchResolve(i)
    \/ \E e \in FetchErrors : FetchReject(i, e)
    \/ \E d \in Responses : JsonResolve(i, d)
    \/ \E e \in JsonErrors : JsonReject(i, e)
    \/ Then(i)
    \/ Catch(i)

Next ==
    \/ \E d \in Docs : Type(d)
    \/ Click
    \/ \E i \in Ids : Advance(i)

Spec == Init /\ [][Next]_vars

\* The event loop runs a callback that is ready, and a request that was sent
\* settles: while a chain can take a step, some chain takes one.
LiveSpec == Spec /\ WF_vars(\E i \in Ids : Advance(i))

TypeOK ==
    /\ field \in Docs
    /\ clicks \in 0..MaxClicks
    /\ sent \in Nat
    /\ \A i \in Ids : req[i].st \in InFlight \cup {"none", "done"}

(***************************************************************************)
(* Helpers of the properties.                                              *)
(***************************************************************************)
Settled == \A i \in Ids : ~Pending(i)

IsObject(v) == v.t = "object"

HasErrorProperty(v) == IsObject(v) /\ "error" \in DOMAIN v.props

HasSection(v, k) == k \in DOMAIN v.props /\ IsObject(v.props[k])

IsLeaf(v) == v.t \in {"string", "number"}

HasLeaf(v, k, f) == f \in DOMAIN v.props[k].props /\ IsLeaf(v.props[k].props[f])

\* A success response: no `error`, the three sections, every leaf field.
IsWellFormed(v) ==
    /\ IsObject(v)
    /\ ~HasErrorProperty(v)
    /\ \A k \in AllSections : HasSection(v, k)
    /\ HasLeaf(v, "entity_extraction", "entities")
    /\ HasLeaf(v, "entity_extraction", "relationships")
    /\ HasLeaf(v, "sentiment_analysis", "sentiment")
    /\ HasLeaf(v, "sentiment_analysis", "confidence")
    /\ HasLeaf(v, "summarization", "summary")

\* The text of leaf f of section k as it appears in the source of the response.
LeafText(v, k, f) ==
    LET x == v.props[k].props[f]
    IN IF x.t = "string" THEN x.s ELSE ToString(x.n)

\* The text of leaf f of section k, or `undefined` when the leaf is missing.
LeafOrUndefined(v, k, f) ==
    IF f \in DOMAIN v.props[k].props
    THEN LeafText(v, k, f)
    ELSE "undefined"

\* Whether the strings of `parts` occur in s one after the other, the first
\* of them not before index from.
RECURSIVE InOrderFrom(_, _, _)
InOrderFrom(s, parts, from) ==
    IF parts = <<>> THEN TRUE
    ELSE LET at == IndexFrom(s, Head(parts), from)
         IN at # 0 /\ InOrderFrom(s, Tail(parts), at + Len(Head(parts)))

StartsWith(s, t) == Len(s) >= Len(t) /\ SubSeq(s, 1, Len(t)) = t

FieldLabels ==
    {"Entities", "Relationships", "Sentiment", "Confidence", "Summary"}

\* The then callback of the most recent request has just run on `last.in`.
ThenRan == last.cb = "then"

\* The catch callback has just run for a failure of fetch() or of json().
TransportFailed ==
    last.cb = "catch" /\ last.from \in {"fetch", "json"}

(***************************************************************************)
(* C1.  Once every request has settled, the panel shows the rendering of   *)
(* the response whose callback ran last, whichever request it belongs to:  *)
(* a response to an earlier request that arrives late overwrites the       *)
(* rendering of a later request.                                           *)
(***************************************************************************)
C1_LastReceivedWins ==
    (Settled /\ last.cb # "none") =>
        panel = (IF last.cb = "then"
                 THEN ThenCallback(last.in).text
                 ELSE "<p>Error: " \o last.in.s \o "</p>")

\* Request 1 settled after request 2 and its rendering is what is shown.
C1_Witness ==
    /\ clicks >= 2
    /\ Settled
    /\ last.id = 1
    /\ last.cb = "then"
    /\ req[2].st = "done"
    /\ Contains(panel, "Apple profits rose.")

(***************************************************************************)
(* C2.  A response that has an `error` property, whatever its value, is    *)
(* rendered as the heading and the error string, and shows none of the     *)
(* analysis labels.                                                        *)
(***************************************************************************)
C2_ErrorResponseShowsOnlyError ==
    (ThenRan /\ HasErrorProperty(last.in)) =>
        /\ ~last.out.threw
        /\ panel = Heading \o "<p>" \o ToStr(last.in.props["error"]) \o "</p>"
        /\ \A l \in FieldLabels : ~Contains(panel, l \o ": ")

(***************************************************************************)
(* C3.  A well-formed success response is rendered as the heading followed *)
(* by the three sub-headings, with the five values verbatim, in the order  *)
(* entities, relationships, sentiment, confidence, summary.                *)
(***************************************************************************)
C3_SuccessShowsValuesInOrder ==
    (ThenRan /\ IsWellFormed(last.in)) =>
        /\ ~last.out.threw
        /\ StartsWith(panel, Heading)
        /\ InOrderFrom(panel,
              << Heading,
                 EntityHeading,
                 LeafText(last.in, "entity_extraction", "entities"),
                 LeafText(last.in, "entity_extraction", "relationships"),
                 SentimentHeading,
                 LeafText(last.in, "sentiment_analysis", "sentiment"),
                 LeafText(last.in, "sentiment_analysis", "confidence"),
                 SummaryHeading,
                 LeafText(last.in, "summarization", "summary") >>, 1)

C3_Witness ==
    /\ ThenRan
    /\ IsWellFormed(last.in)
    /\ Contains(panel, "<p>Entities: Apple</p><p>Relationships: none</p>")

(***************************************************************************)
(* C4 as stated.  After a transport failure the panel contains an error    *)
(* indication and differs from what it showed before the click that        *)
(* issued the request, whatever it showed then.                            *)
(***************************************************************************)
C4_TransportFailureChangesPanel ==
    TransportFailed =>
        /\ Contains(panel, "Error")
        /\ panel # last.atClick

(***************************************************************************)
(* C4 as amended.  After a transport failure the panel is the fragment     *)
(* <p>Error: e</p> for the error text e, which contains an error           *)
(* indication; it differs from what the panel showed before the click      *)
(* unless the panel already showed that same fragment then.                *)
(***************************************************************************)
C4_TransportFailureShowsError ==
    TransportFailed =>
        /\ panel = "<p>Error: " \o last.in.s \o "</p>"
        /\ Contains(panel, "Error")
        /\ (last.atClick # "<p>Error: " \o last.in.s \o "</p>"
                => panel # last.atClick)

\* A second failure with the same error leaves the panel as it was at the
\* click.
C4_Witness ==
    /\ TransportFailed
    /\ last.id = 2
    /\ req[1].st = "done"
    /\ panel = last.atClick

(***************************************************************************)
(* C5.  Every click, whatever the field holds, the empty string included,  *)
(* sends one request whose body is the JSON object {document: v} for the   *)
(* value v the field has at the click.                                     *)
(***************************************************************************)
C5_ClickSendsFieldAsDocument ==
    [][clicks' = clicks + 1 =>
          /\ sent' = sent + 1
          /\ req'[clicks'].st = "fetch"
          /\ IsDocumentBody(req'[clicks'].body)
          /\ ParseBodyDocument(req'[clicks'].body) = field]_vars

\* A request for the empty document is in flight.
C5_Witness ==
    \E i \in Ids :
        /\ req[i].st = "fetch"
        /\ IsDocumentBody(req[i].body)
        /\ ParseBodyDocument(req[i].body) = ""

(***************************************************************************)
(* C6.  The number of requests sent equals the number of clicks, and every *)
(* request sent is in flight or has settled: no callback sends a request   *)
(* and none withdraws one.                                                 *)
(***************************************************************************)
C6_OneRequestPerClick ==
    /\ sent = clicks
    /\ Cardinality({i \in Ids : req[i].st # "none"}) = clicks
    /\ \A i \in Ids : i > clicks => req[i].st = "none"

\* Two clicks, the second while the first request was pending, and a failure
\* has been rendered.
C6_Witness ==
    /\ clicks >= 2
    /\ sent = clicks
    /\ last.cb = "catch"
    /\ last.id = 2
    /\ Pending(1)

(***************************************************************************)
(* C7 as stated.  The arrival of a response or an error returns the client *)
(* to Idle.                                                                *)
(***************************************************************************)
C7_ArrivalReturnsToIdle ==
    [][\A i \in Ids :
          (Pending(i) /\ ~Pending(i)') => clientState' = "Idle"]_vars

(***************************************************************************)
(* C7 as amended.  The client starts in Idle; a click moves it to          *)
(* AwaitingResponse; the settling of a request returns it to Idle exactly  *)
(* when no other request is pending; and, every request settling, it is    *)
(* eventually Idle for good.                                               *)
(***************************************************************************)
C7_TwoStateMachine ==
    /\ clientState = "Idle"
    /\ [][/\ clicks' = clicks + 1 => clientState' = "AwaitingResponse"
          /\ \A i \in Ids :
                (Pending(i) /\ ~Pending(i)') =>
                    (clientState' = "Idle"
                        <=> \A j \in Ids \ {i} : ~Pending(j))
          /\ clientState' # clientState =>
                \/ clicks' = clicks + 1
                \/ \E i \in Ids : Pending(i) /\ ~Pending(i)']_vars
    /\ <>[](clientState = "Idle")

\* Idle again after two requests of which the first settled last.
C7_Witness ==
    /\ clientState = "Idle"
    /\ clicks >= 2
    /\ last.id = 1
    /\ last.cb = "catch"
    /\ req[2].st = "done"

(***************************************************************************)
(* C8.  When the decoded response has an `error` property, the callback    *)
(* reads none of entity_extraction, sentiment_analysis, summarization.     *)
(***************************************************************************)
C8_ErrorMeansSectionsNotRead ==
    (ThenRan /\ HasErrorProperty(last.in)) =>
        last.out.reads \cap AllSections = {}

(***************************************************************************)
(* C9 as stated.  A response without `error` that lacks a leaf field or a  *)
(* whole section is rendered as the success fragment with `undefined` for  *)
(* what is missing; no error is raised.                                    *)
(***************************************************************************)
C9_MissingRendersUndefined ==
    (ThenRan /\ IsObject(last.in) /\ ~HasErrorProperty(last.in)
        /\ ~IsWellFormed(last.in)) =>
        /\ ~last.out.threw
        /\ StartsWith(panel, Heading \o EntityHeading)
        /\ Contains(panel, "undefined")

(***************************************************************************)
(* C9 as amended.  A response without `error` that has the three sections  *)
(* is rendered as the success fragment, with `undefined` for each leaf     *)
(* field that is missing, and no error is raised; a response without       *)
(* `error` that lacks a section makes the callback throw a TypeError at    *)
(* the first missing section and writes nothing.                           *)
(***************************************************************************)
C9_MissingLeafRendersUndefined ==
    (ThenRan /\ IsObject(last.in) /\ ~HasErrorProperty(last.in)) =>
        IF \A k \in AllSections : HasSection(last.in, k)
        THEN /\ ~last.out.threw
             /\ panel =
                  Heading \o EntityHeading
                  \o "<p>Entities: "
                  \o LeafOrUndefined(last.in, "entity_extraction", "entities")
                  \o "</p><p>Relationships: "
                  \o LeafOrUndefined(last.in, "entity_extraction",
                                     "relationships")
                  \o "</p>" \o SentimentHeading \o "<p>Sentiment: "
                  \o LeafOrUndefined(last.in, "sentiment_analysis", "sentiment")
                  \o "</p><p>Confidence: "
                  \o LeafOrUndefined(last.in, "sentiment_analysis",
                                     "confidence")
                  \o "</p>" \o SummaryHeading \o "<p>Summary: "
                  \o LeafOrUndefined(last.in, "summarization", "summary")
                  \o "</p>"
        ELSE /\ last.out.threw
             /\ StartsWith(last.out.text,
                           "TypeError: Cannot read properties of undefined")
             /\ req[last.id].st = "catch"
             /\ req[last.id].err = last.out.text

\* A response without entities and without summary has been rendered.
C9_Witness ==
    /\ ThenRan
    /\ ~HasErrorProperty(last.in)
    /\ Contains(panel, "<p>Entities: undefined</p>")
    /\ Contains(panel, "<p>Summary: undefined</p>")

(***************************************************************************)
(* C10 as stated.  For the same error text e, the panel after the          *)
(* response {error: e} equals the panel after a transport failure with     *)
(* error e.                                                                *)
(***************************************************************************)
C10_ErrorKindsRenderedIdentically ==
    (ThenRan /\ HasErrorProperty(last.in)
        /\ last.in.props["error"].t = "string" /\ ~last.out.threw) =>
        panel = CatchFragment(last.in.props["error"].s)

(***************************************************************************)
(* C10 as amended.  Both error kinds are rendered as a paragraph of text,  *)
(* but not identically: a transport failure with error e shows             *)
(* <p>Error: e</p> without the heading, the response {error: e} with a     *)
(* non-empty e shows the heading followed by <p>e</p>, and for no e are    *)
(* the two panels equal.                                                   *)
(***************************************************************************)
C10_ErrorKindsRenderedDifferently ==
    /\ (ThenRan /\ HasErrorProperty(last.in)
           /\ last.in.props["error"].t = "string") =>
          LET e == last.in.props["error"].s
          IN /\ e # "" => panel = Heading \o "<p>" \o e \o "</p>"
             /\ ~last.out.threw => panel # CatchFragment(e)
    /\ last.cb = "catch" =>
          LET e == last.in.s
              app == ThenCallback(Obj([error |-> Str(e)]))
          IN /\ panel = "<p>Error: " \o e \o "</p>"
             /\ ~StartsWith(panel, Heading)
             /\ ~app.threw => panel # app.text

\* The response {error: e} has been rendered for an e that fetch() also
\* rejects with.
C10_Witness ==
    /\ ThenRan
    /\ last.in = Obj([error |-> Str("TypeError: Failed to fetch")])
    /\ panel = Heading \o "<p>TypeError: Failed to fetch</p>"

(***************************************************************************)
(* Helpers of the properties of single steps.                              *)
(***************************************************************************)
\* The step is a click.
Clicked == clicks' = clicks + 1

\* The step ends the chain of request i.
Completes(i) == Pending(i) /\ ~Pending(i)'

\* What a page that has shown nothing yet shows for the decoded response d,
\* and for a failure with the error text e.
FreshAfterResponse(d) == ThenCallback(d).text
FreshAfterFailure(e) == "<p>Error: " \o e \o "</p>"

(***************************************************************************)
(* C11.  No error disables the client: whatever errors have been rendered  *)
(* or raised, the click handler stays enabled, a click sends a request,    *)
(* and the outcome of a request is rendered as a page that has shown       *)
(* nothing yet would render it.                                            *)
(***************************************************************************)
C11_NoErrorIsFatal ==
    /\ [](clicks < MaxClicks => ENABLED Click)
    /\ [][/\ Clicked => (sent' = sent + 1 /\ req'[clicks'].st = "fetch")
          /\ \A i \in Ids :
                Completes(i) =>
                    panel' = (IF req[i].st = "then"
                              THEN FreshAfterResponse(req[i].data)
                              ELSE FreshAfterFailure(req[i].err))]_vars

\* The second request was sent while the panel showed a failure, and its
\* response is rendered.
C11_Witness ==
    /\ last.id = 2
    /\ last.cb = "then"
    /\ ~last.out.threw
    /\ req[1].st = "done"
    /\ StartsWith(last.atClick, "<p>Error: ")
    /\ panel = FreshAfterResponse(last.in)
    /\ Contains(panel, "Apple profits rose.")

(***************************************************************************)
(* C12.  A click leaves the panel as it is, and the panel changes only in  *)
(* a step that ends the chain of a request: while requests are pending,    *)
(* for as long as none of them settles, the panel keeps its content.       *)
(***************************************************************************)
C12_PanelChangesOnlyOnCompletion ==
    [][/\ Clicked => panel' = panel
       /\ panel' # panel => \E i \in Ids : Completes(i)
       /\ (\A i \in Ids : Pending(i) => req'[i].st = req[i].st)
             => panel' = panel]_vars

\* A request is waiting for its response and the panel still shows the
\* rendering it showed at the click.
C12_Witness ==
    /\ req[1].st = "done"
    /\ req[2].st = "json"
    /\ panel # InitialPanel
    /\ panel = req[2].atClick

(***************************************************************************)
(* The shapes of a panel content.                                          *)
(***************************************************************************)
EndsWith(s, t) ==
    Len(s) >= Len(t) /\ SubSeq(s, Len(s) - Len(t) + 1, Len(s)) = t

SectionHeadings == {EntityHeading, SentimentHeading, SummaryHeading}

\* The heading and the three sections, each with its paragraphs.
IsSuccessPanel(s) ==
    LET start == Heading \o EntityHeading \o "<p>Entities: "
    IN /\ StartsWith(s, start)
       /\ InOrderFrom(s,
             << "</p><p>Relationships: ",
                "</p>" \o SentimentHeading \o "<p>Sentiment: ",
                "</p><p>Confidence: ",
                "</p>" \o SummaryHeading \o "<p>Summary: " >>,
             Len(start) + 1)
       /\ EndsWith(s, "</p>")

\* The heading and one paragraph, no section.
IsErrorPanel(s) ==
    /\ StartsWith(s, Heading \o "<p>")
    /\ EndsWith(s, "</p>")
    /\ \A h \in SectionHeadings : ~Contains(s, h)

\* The paragraph of the catch callback, without the heading.
IsFailurePanel(s) ==
    /\ StartsWith(s, "<p>Error: ")
    /\ EndsWith(s, "</p>")
    /\ ~Contains(s, Heading)
    /\ \A h \in SectionHeadings : ~Contains(s, h)

(***************************************************************************)
(* C13.  The panel always holds its initial content, a success fragment    *)
(* with the heading and all three sections, the heading with an error      *)
(* string, or the fragment of the catch callback; it never holds some of   *)
(* the sections without the others, also after a response that lacks a     *)
(* section.                                                                *)
(***************************************************************************)
C13_PanelIsNeverPartial ==
    /\ \/ panel = InitialPanel
       \/ IsSuccessPanel(panel)
       \/ IsErrorPanel(panel)
       \/ IsFailurePanel(panel)
    /\ (\E h \in SectionHeadings : Contains(panel, h)) =>
          \A h \in SectionHeadings : Contains(panel, h)

\* A response without summarization has been handled: the panel shows the
\* fragment of the catch callback.
C13_Witness ==
    /\ last.cb = "catch"
    /\ last.from = "then"
    /\ IsFailurePanel(panel)
    /\ Contains(panel, "(reading 'summary')")

(***************************************************************************)
(* C14.  A request that has settled has assigned the panel exactly once,   *)
(* in its then callback or in its catch callback, and a request that has   *)
(* not settled has not assigned it; what the then callback throws on a     *)
(* decoded response (null, or one that lacks a section) reaches the catch  *)
(* callback, which shows <p>Error: ...</p> without the heading.            *)
(***************************************************************************)
C14_OneWritePerSettledRequest ==
    /\ \A i \in Ids :
          req[i].writes = (IF req[i].st = "done" THEN 1 ELSE 0)
    /\ (ThenRan /\ last.out.threw) =>
          /\ req[last.id].st = "catch"
          /\ req[last.id].from = "then"
          /\ req[last.id].err = last.out.text
    /\ (last.cb = "catch" /\ last.from = "then") =>
          /\ StartsWith(last.in.s, "TypeError: ")
          /\ panel = "<p>Error: " \o last.in.s \o "</p>"
          /\ ~Contains(panel, Heading)

\* The response null has been decoded, the then callback has thrown, and
\* the catch callback has made the one assignment of the request.
C14_Witness ==
    /\ last.cb = "catch"
    /\ last.from = "then"
    /\ req[last.id].st = "done"
    /\ req[last.id].writes = 1
    /\ panel = "<p>Error: TypeError: Cannot read properties of null "
                  \o "(reading 'error')</p>"

(***************************************************************************)
(* C15.  The document of a request is the field value at its click: an     *)
(* edit of the field changes no pending request and not the panel, the     *)
(* body of a request stays what it was while the request is being sent,    *)
(* and what a callback assigns to the panel is determined by the response  *)
(* or the error it receives, whatever the field and the panel hold.        *)
(***************************************************************************)
C15_DocumentCapturedAtClick ==
    [][/\ Clicked => req'[clicks'].body = JSONStringifyBody(field)
       /\ field' # field => (req' = req /\ panel' = panel)
       /\ \A i \in Ids :
             /\ (req[i].st = "fetch" /\ req'[i].st = "fetch")
                   => req'[i].body = req[i].body
             /\ (req[i].st = "then" /\ req'[i].st = "done")
                   => panel' = FreshAfterResponse(req[i].data)
             /\ (req[i].st = "catch" /\ req'[i].st = "done")
                   => panel' = FreshAfterFailure(req[i].err)]_vars

\* The field has been edited while a request was being sent: the request
\* still carries the document of its click.
C15_Witness ==
    \E i \in Ids :
        /\ req[i].st = "fetch"
        /\ IsDocumentBody(req[i].body)
        /\ ParseBodyDocument(req[i].body) # field
        /\ ParseBodyDocument(req[i].body) \in Docs
====
